---- MODULE Spec2Model ----
(***************************************************************************)
(* Pre-Validador SIPOT (src/app.py): the cell classifiers, the coordinate *)
(* mapper, the validation run of one uploaded sheet (filtering, base      *)
(* validation, consolidation of contiguous errors, record extraction) and *)
(* the task registry shared by the upload, status and download endpoints. *)
(*                                                                         *)
(* A Python str is a sequence of one-character strings; None is the       *)
(* one-element sequence None, which no str equals.                         *)
(***************************************************************************)
EXTENDS Integers, Sequences, FiniteSets, TLC

VARIABLES
    valor, veredicto,                  \* a call of VALIDADORES['12']['func']
    llamada, col, col_str, coord,      \* a call of obtener_coordenada_excel
    clients,                           \* the files the clients upload, by task id
    tasks,                             \* the global dict tasks
    disk,                              \* the files of the upload, temp and download folders
    pc, csv_path, df, errores_base, lista_de_errores, registros, exc
                                       \* each run's position and locals

anioVars  == <<valor, veredicto>>
coordVars == <<llamada, col, col_str, coord>>
runVars   == <<clients, tasks, disk, pc, csv_path, df, errores_base,
               lista_de_errores, registros, exc>>
vars      == <<anioVars, coordVars, runVars>>

(***************************************************************************)
(* Bounds of the model.                                                    *)
(***************************************************************************)
MaxValLen   == 5      \* longest cell value handed to the Year rule
MaxColIdx   == 704    \* largest column index handed to the coordinate mapper
MaxFilaIdx  == 10     \* largest row index handed to the coordinate mapper
MaxDataRows == 4      \* most data rows of a sheet of the consolidation family
MaxTasks    == 2      \* most concurrent uploads

(***************************************************************************)
(* Strings.                                                                *)
(***************************************************************************)
None == <<"None">>

Digits == {"0", "1", "2", "3", "4", "5", "6", "7", "8", "9"}
Upper  == <<"A", "B", "C", "D", "E", "F", "G", "H", "I", "J", "K", "L", "M",
            "N", "O", "P", "Q", "R", "S", "T", "U", "V", "W", "X", "Y", "Z">>
Lower  == <<"a", "b", "c", "d", "e", "f", "g", "h", "i", "j", "k", "l", "m",
            "n", "o", "p", "q", "r", "s", "t", "u", "v", "w", "x", "y", "z">>
Whitespace == {" ", "\t", "\n", "\r"}

IsUpper(c) == \E i \in 1..26 : Upper[i] = c

\* str.lower() on one character
LowerChar(c) == IF IsUpper(c) THEN Lower[CHOOSE i \in 1..26 : Upper[i] = c] ELSE c

\* str.lower()
ToLower(s) == [i \in 1..Len(s) |-> LowerChar(s[i])]

\* str(v): None prints as the four characters of 'None'
Str(v) == IF v = None THEN <<"N", "o", "n", "e">> ELSE v

\* str.strip(): leading and trailing whitespace removed
Strip(s) ==
    LET keep == {i \in 1..Len(s) : s[i] \notin Whitespace}
    IN  IF keep = {} THEN <<>>
        ELSE LET a == CHOOSE i \in keep : \A j \in keep : i <= j
                 b == CHOOSE i \in keep : \A j \in keep : j <= i
             IN  SubSeq(s, a, b)

\* s.split('.')[0]: what precedes the first '.'
BeforeDot(s) ==
    LET dots == {i \in 1..Len(s) : s[i] = "."}
    IN  IF dots = {} THEN s
        ELSE SubSeq(s, 1, (CHOOSE i \in dots : \A j \in dots : i <= j) - 1)

\* s.startswith(p)
StartsWith(s, p) == Len(s) >= Len(p) /\ SubSeq(s, 1, Len(p)) = p

(***************************************************************************)
(* es_numero: float(v) succeeds.  float() of a str strips whitespace and  *)
(* accepts [sign] (inf | infinity | nan), any case, or                     *)
(* [sign] (digits [. [digits]] | . digits) [(e|E) [sign] digits],          *)
(* where digits may be grouped by single underscores.  float(None) raises *)
(* TypeError.                                                              *)
(***************************************************************************)
RECURSIVE DigitsEnd(_, _)
\* the position after the longest digit group of s that starts at i (i if none)
DigitsEnd(s, i) ==
    IF i > Len(s) \/ s[i] \notin Digits THEN i
    ELSE IF i + 2 <= Len(s) /\ s[i + 1] = "_" /\ s[i + 2] \in Digits
         THEN DigitsEnd(s, i + 2)
         ELSE IF i + 1 <= Len(s) /\ s[i + 1] \in Digits
              THEN DigitsEnd(s, i + 1)
              ELSE i + 1

SkipSign(s, i) == IF i <= Len(s) /\ s[i] \in {"+", "-"} THEN i + 1 ELSE i

FloatParses(s) ==
    LET t  == Strip(s)
        n  == Len(t)
        p  == SkipSign(t, 1)
        a  == DigitsEnd(t, p)
        dot == a <= n /\ t[a] = "."
        b  == IF dot THEN DigitsEnd(t, a + 1) ELSE a
        mantissa == (a > p) \/ (dot /\ b > a + 1)
        ex == b <= n /\ t[b] \in {"e", "E"}
        q  == IF ex THEN SkipSign(t, b + 1) ELSE b
        d  == IF ex THEN DigitsEnd(t, q) ELSE b
    IN  \/ ToLower(SubSeq(t, p, n)) \in
               {<<"i", "n", "f">>, <<"n", "a", "n">>,
                <<"i", "n", "f", "i", "n", "i", "t", "y">>}
        \/ mantissa /\ (ex => d > q) /\ d = n + 1

es_numero(v) == v # None /\ FloatParses(v)

es_anio(v) == es_numero(v) /\ Len(BeforeDot(Str(v))) = 4

\* re.match(r'^([01]\d|2[0-3]):([0-5]\d)(:([0-5]\d))?$', str(v).strip())
es_hora(v) ==
    LET t == Strip(Str(v))
        hhmm(u) == /\ \/ u[1] \in {"0", "1"} /\ u[2] \in Digits
                      \/ u[1] = "2" /\ u[2] \in {"0", "1", "2", "3"}
                   /\ u[3] = ":"
                   /\ u[4] \in {"0", "1", "2", "3", "4", "5"} /\ u[5] \in Digits
        ss(u)   == /\ u[6] = ":"
                   /\ u[7] \in {"0", "1", "2", "3", "4", "5"} /\ u[8] \in Digits
    IN  \/ Len(t) = 5 /\ hhmm(t)
        \/ Len(t) = 8 /\ hhmm(t) /\ ss(t)

\* str(v).strip().lower().startswith(('http://', 'https://'))
es_url(v) ==
    LET t == ToLower(Strip(Str(v)))
    IN  \/ StartsWith(t, <<"h", "t", "t", "p", ":", "/", "/">>)
        \/ StartsWith(t, <<"h", "t", "t", "p", "s", ":", "/", "/">>)

\* esta_vacio on a cell of the frame (a str or None)
esta_vacio(v) ==
    IF v = None THEN TRUE
    ELSE LET s == Strip(v)
         IN  IF s \in {<<"0">>, <<"0", ".", "0">>} THEN FALSE
             ELSE s = <<>> \/ ToLower(s) \in {<<"n", "a", "n">>,
                                              <<"n", "o", "n", "e">>,
                                              <<"n", "u", "l", "l">>}

\* parser.parse(str(v)) succeeds.  dateutil is not part of the repository: the
\* model accepts the shape digits-digits-digits only, and no sheet of the
\* bounded input families carries a date rule.
es_fecha(v) ==
    LET t == Strip(Str(v))
        a == DigitsEnd(t, 1)
        b == DigitsEnd(t, a + 1)
        c == DigitsEnd(t, b + 1)
    IN  /\ a > 1 /\ a <= Len(t) /\ t[a] = "-"
        /\ b > a + 1 /\ b <= Len(t) /\ t[b] = "-"
        /\ c > b + 1 /\ c = Len(t) + 1

Numero  == <<"N", "ú", "m", "e", "r", "o">>
Fecha   == <<"F", "e", "c", "h", "a">>
Hora    == <<"H", "o", "r", "a", " ", "(", "H", "H", ":", "M", "M", ")">>
Moneda  == <<"M", "o", "n", "e", "d", "a">>
Url     == <<"U", "R", "L">>
Anio    == <<"A", "ñ", "o", " ", "(", "4", " ", "d", "í", "g", "i", "t", "o", "s", ")">>

\* the rule codes of VALIDADORES
Reglas == {<<"3">>, <<"4">>, <<"5">>, <<"6">>, <<"7">>, <<"1", "2">>, <<"1", "3">>}

\* VALIDADORES[regla]['nombre']
NombreRegla(regla) ==
    CASE regla = <<"3">> -> Numero
      [] regla = <<"4">> -> Fecha
      [] regla = <<"5">> -> Hora
      [] regla = <<"6">> -> Moneda
      [] regla = <<"7">> -> Url
      [] regla = <<"1", "2">> -> Anio
      [] regla = <<"1", "3">> -> Fecha

\* VALIDADORES[regla]['func'](v)
CumpleRegla(regla, v) ==
    CASE regla = <<"3">> -> es_numero(v)
      [] regla = <<"4">> -> es_fecha(v)
      [] regla = <<"5">> -> es_hora(v)
      [] regla = <<"6">> -> es_numero(v)
      [] regla = <<"7">> -> es_url(v)
      [] regla = <<"1", "2">> -> es_anio(v)
      [] regla = <<"1", "3">> -> es_fecha(v)

(***************************************************************************)
(* Integers printed and read in decimal: f"{n}" and int(s).                *)
(***************************************************************************)
DigitSeq == <<"0", "1", "2", "3", "4", "5", "6", "7", "8", "9">>

RECURSIVE DecStr(_)
DecStr(n) == IF n < 10 THEN <<DigitSeq[n + 1]>>
             ELSE DecStr(n \div 10) \o <<DigitSeq[(n % 10) + 1]>>

DigitVal(c) == (CHOOSE i \in 1..10 : DigitSeq[i] = c) - 1

RECURSIVE ParseInt(_)
ParseInt(s) == IF s = <<>> THEN 0
               ELSE 10 * ParseInt(SubSeq(s, 1, Len(s) - 1)) + DigitVal(s[Len(s)])

(***************************************************************************)
(* obtener_coordenada_excel.                                               *)
(***************************************************************************)
\* chr(ord('A') + col % 26)
ColLetter(c) == Upper[(c % 26) + 1]

ColNextMut(c) == c \div 27 - 1
\* col // 26 - 1
ColNext(c) == c \div 26 - 1

RECURSIVE ColLoop(_, _)
\* the while loop, run to its end from (col, col_str)
ColLoop(c, acc) == IF c >= 0 THEN ColLoop(ColNext(c), <<ColLetter(c)>> \o acc) ELSE acc

obtener_coordenada_excel(f, c) == ColLoop(c, <<>>) \o DecStr(f + 1)

(***************************************************************************)
(* The frame: pl.read_csv with null_values, then the filter of the rows    *)
(* that are completely empty.                                              *)
(***************************************************************************)
\* null_values=['', 'NULL', 'null', 'NaN', 'nan']
NullValues == {<<>>, <<"N", "U", "L", "L">>, <<"n", "u", "l", "l">>,
               <<"N", "a", "N">>, <<"n", "a", "n">>}

\* pl.read_csv(..., has_header=False, infer_schema_length=0, null_values=...)
read_csv(rows) ==
    [i \in 1..Len(rows) |->
        [j \in 1..Len(rows[i]) |->
            IF rows[i][j] \in NullValues THEN None ELSE rows[i][j]]]

\* pl.any_horizontal(~pl.col("*").is_null() & (... .str.strip_chars() != ""))
FilaConDatos(row) == \E j \in 1..Len(row) : row[j] # None /\ Strip(row[j]) # <<>>

SinFiltrar(frame) == frame
\* df.filter(...): the rows with some cell that is not null and not blank
FiltrarVacias(frame) == SelectSeq(frame, FilaConDatos)

\* df.row(3) if df.height > 3 else []
FilaReglas(frame) == IF Len(frame) > 3 THEN frame[4] ELSE <<>>

\* [str(h or "").strip() for h in (df.row(6) if df.height > 6 else [])]
HeadersVisibles(frame) ==
    LET fila6 == IF Len(frame) > 6 THEN frame[7] ELSE <<>>
    IN  [j \in 1..Len(fila6) |-> IF fila6[j] = None THEN <<>> ELSE Strip(fila6[j])]

\* df.slice(7)
Datos(frame) == SubSeq(frame, 8, Len(frame))

(***************************************************************************)
(* Base validation (the loop over datos.iter_rows()).                      *)
(***************************************************************************)
Celda == <<"C", "e", "l", "d", "a">>

\* f"Celda {coord} bajo '{header}' vacía."
ErrorVacia(c, header) ==
    Celda \o <<" ">> \o c \o <<" ", "b", "a", "j", "o", " ", "'">> \o header
          \o <<"'", " ", "v", "a", "c", "í", "a", ".">>

\* f"Celda {coord} ('{valor}') inválida. Se esperaba: {val['nombre']}."
ErrorInvalida(c, v, nombre) ==
    Celda \o <<" ">> \o c \o <<" ", "(", "'">> \o Str(v)
          \o <<"'", ")", " ", "i", "n", "v", "á", "l", "i", "d", "a", ".", " ",
               "S", "e", " ", "e", "s", "p", "e", "r", "a", "b", "a", ":", " ">>
          \o nombre \o <<".">>

\* str(reglas[col_idx]).split('.')[0] if col_idx < len(reglas) else '0'
ReglaDe(reglas, col_idx) ==
    IF col_idx < Len(reglas) THEN BeforeDot(Str(reglas[col_idx + 1])) ELSE <<"0">>

\* the type check of one cell: its error, if any
ErrorDeTipo(reglas, abs_row_idx, col_idx, v) ==
    LET regla == ReglaDe(reglas, col_idx)
    IN  IF regla \in Reglas /\ ~CumpleRegla(regla, v)
        THEN <<ErrorInvalida(obtener_coordenada_excel(abs_row_idx, col_idx), v,
                             NombreRegla(regla))>>
        ELSE <<>>

\* a variant that runs the type check on empty cells too
ValidarCeldaSinElse(reglas, headers, abs_row_idx, col_idx, v) ==
    IF col_idx >= Len(headers) \/ headers[col_idx + 1] = <<>> THEN <<>>
    ELSE (IF esta_vacio(v)
          THEN <<ErrorVacia(obtener_coordenada_excel(abs_row_idx, col_idx),
                            headers[col_idx + 1])>>
          ELSE <<>>)
         \o ErrorDeTipo(reglas, abs_row_idx, col_idx, v)

\* the body of the inner loop: the errors one cell appends
ValidarCelda(reglas, headers, abs_row_idx, col_idx, v) ==
    IF col_idx >= Len(headers) THEN <<>>
    ELSE IF headers[col_idx + 1] = <<>> THEN <<>>
    ELSE IF esta_vacio(v)
         THEN <<ErrorVacia(obtener_coordenada_excel(abs_row_idx, col_idx),
                           headers[col_idx + 1])>>
         ELSE ErrorDeTipo(reglas, abs_row_idx, col_idx, v)

RECURSIVE ErroresDeFila(_, _, _, _, _)
\* for col_idx, valor in enumerate(row), from col_idx on
ErroresDeFila(reglas, headers, row, fila_idx, col_idx) ==
    IF col_idx >= Len(row) THEN <<>>
    ELSE ValidarCelda(reglas, headers, fila_idx + 7, col_idx, row[col_idx + 1])
         \o ErroresDeFila(reglas, headers, row, fila_idx, col_idx + 1)

RECURSIVE ErroresDesde(_, _, _, _)
\* for fila_idx, row in enumerate(datos.iter_rows()), from fila_idx on
ErroresDesde(reglas, headers, datos, fila_idx) ==
    IF fila_idx >= Len(datos) THEN <<>>
    ELSE ErroresDeFila(reglas, headers, datos[fila_idx + 1], fila_idx, 0)
         \o ErroresDesde(reglas, headers, datos, fila_idx + 1)

\* lista_de_errores after the base validation
ValidacionBase(frame) ==
    ErroresDesde(FilaReglas(frame), HeadersVisibles(frame), Datos(frame), 0)

(***************************************************************************)
(* Consolidation of contiguous errors.                                     *)
(***************************************************************************)
RECURSIVE SpanEnd(_, _, _)
\* the first position from i on whose character is not in S
SpanEnd(s, i, S) == IF i <= Len(s) /\ s[i] \in S THEN SpanEnd(s, i + 1, S) ELSE i

RECURSIVE LineEnd(_, _)
\* the first position from i on that holds a line break ('.' matches no '\n')
LineEnd(s, i) == IF i <= Len(s) /\ s[i] # "\n" THEN LineEnd(s, i + 1) ELSE i

UpperSet == {Upper[i] : i \in 1..26}

\* whether re.compile(r"Celda\s+([A-Z]+)(\d+)\s+(.*)") matches at position i
PatronOk(s, i) ==
    /\ i + 4 <= Len(s) /\ SubSeq(s, i, i + 4) = Celda
    /\ LET a == i + 5
           b == SpanEnd(s, a, Whitespace)
           c == SpanEnd(s, b, UpperSet)
           d == SpanEnd(s, c, Digits)
       IN  b > a /\ c > b /\ d > c /\ SpanEnd(s, d, Whitespace) > d

\* the groups of the match at position i: every quantifier is greedy, and
\* none has to give back what it took
PatronEn(s, i) ==
    LET b == SpanEnd(s, i + 5, Whitespace)
        c == SpanEnd(s, b, UpperSet)
        d == SpanEnd(s, c, Digits)
        e == SpanEnd(s, d, Whitespace)
    IN  [ok   |-> TRUE,
         col  |-> SubSeq(s, b, c - 1),
         fila |-> SubSeq(s, c, d - 1),
         msg  |-> SubSeq(s, e, LineEnd(s, e) - 1)]

\* patron.search(err): the leftmost match, and whether there is one
PatronSearch(s) ==
    LET hits == {i \in 1..Len(s) : PatronOk(s, i)}
    IN  IF hits = {} THEN [ok |-> FALSE, col |-> <<>>, fila |-> <<>>, msg |-> <<>>]
        ELSE PatronEn(s, CHOOSE i \in hits : \A j \in hits : i <= j)

AgregarAlFrente(grupos, c, f, msg) ==
    IF \E g \in 1..Len(grupos) : grupos[g].col = c /\ grupos[g].msg = msg
    THEN [g \in 1..Len(grupos) |->
            IF grupos[g].col = c /\ grupos[g].msg = msg
            THEN [grupos[g] EXCEPT !.filas = Append(@, f)] ELSE grupos[g]]
    ELSE <<[col |-> c, msg |-> msg, filas |-> <<f>>]>> \o grupos
\* por_col_y_msg.setdefault((col, msg), []).append(fila); a dict keeps the
\* order in which its keys were first set
Agregar(grupos, c, f, msg) ==
    IF \E g \in 1..Len(grupos) : grupos[g].col = c /\ grupos[g].msg = msg
    THEN [g \in 1..Len(grupos) |->
            IF grupos[g].col = c /\ grupos[g].msg = msg
            THEN [grupos[g] EXCEPT !.filas = Append(@, f)] ELSE grupos[g]]
    ELSE Append(grupos, [col |-> c, msg |-> msg, filas |-> <<f>>])

RECURSIVE PorColYMsg(_, _, _)
\* for err in lista_de_errores, from the i-th on
PorColYMsg(errs, i, grupos) ==
    IF i > Len(errs) THEN grupos
    ELSE LET m == PatronSearch(errs[i])
         IN  IF ~m.ok THEN PorColYMsg(errs, i + 1, grupos)
             ELSE PorColYMsg(errs, i + 1,
                             Agregar(grupos, m.col, ParseInt(m.fila), Strip(m.msg)))

RECURSIVE Insertar(_, _)
Insertar(sorted, x) ==
    IF sorted = <<>> THEN <<x>>
    ELSE IF x < sorted[1] THEN <<x>> \o sorted
    ELSE <<sorted[1]>> \o Insertar(Tail(sorted), x)

RECURSIVE Ordenar(_)
\* filas.sort()
Ordenar(filas) ==
    IF filas = <<>> THEN <<>>
    ELSE Insertar(Ordenar(SubSeq(filas, 1, Len(filas) - 1)), filas[Len(filas)])

\* f"Celda {col}{ini}" + (f" hasta {col}{prev}" if ini != prev else "") + f" {msg}"
Bloque(c, ini, prev, msg) ==
    Celda \o <<" ">> \o c \o DecStr(ini)
          \o (IF ini # prev
              THEN <<" ", "h", "a", "s", "t", "a", " ">> \o c \o DecStr(prev)
              ELSE <<>>)
          \o <<" ">> \o msg

SigueSinHueco(f, prev) == f > prev
\* f == prev + 1
Sigue(f, prev) == f = prev + 1

RECURSIVE BloquesDeGrupo(_, _, _, _, _, _)
\* for f in filas[1:], from the i-th row on, and the append after the loop
BloquesDeGrupo(c, msg, filas, i, ini, prev) ==
    IF i > Len(filas) THEN <<Bloque(c, ini, prev, msg)>>
    ELSE IF Sigue(filas[i], prev)
         THEN BloquesDeGrupo(c, msg, filas, i + 1, ini, filas[i])
         ELSE <<Bloque(c, ini, prev, msg)>>
              \o BloquesDeGrupo(c, msg, filas, i + 1, filas[i], filas[i])

RECURSIVE BloquesDesde(_, _)
\* for (col, msg), filas in por_col_y_msg.items(), from the g-th group on
BloquesDesde(grupos, g) ==
    IF g > Len(grupos) THEN <<>>
    ELSE LET filas == Ordenar(grupos[g].filas)
         IN  BloquesDeGrupo(grupos[g].col, grupos[g].msg, filas, 2, filas[1], filas[1])
             \o BloquesDesde(grupos, g + 1)

\* lista_de_errores after "Agrupar errores contiguos"
Agrupar(errs) ==
    IF errs = <<>> THEN errs ELSE BloquesDesde(PorColYMsg(errs, 1, <<>>), 1)

(***************************************************************************)
(* Metadata and the records of the success path.                           *)
(***************************************************************************)
ND == <<"N", "/", "D">>

Ancho(frame) == IF frame = <<>> THEN 0 ELSE Len(frame[1])

\* df[2, 3] if df.height > 2 and df.width > 3 else 'N/D'
NombreCorto(frame) == IF Len(frame) > 2 /\ Ancho(frame) > 3 THEN frame[3][4] ELSE ND

HeaderSinNombre ==
    <<"h", "e", "a", "d", "e", "r", "_", "s", "i", "n", "_", "n", "o", "m", "b", "r", "e">>

HeadersTalCual(frame) ==
    LET fila6 == IF Len(frame) > 6 THEN frame[7] ELSE <<>>
    IN  [j \in 1..Len(fila6) |-> IF fila6[j] = None THEN <<>> ELSE Strip(fila6[j])]
\* [str(h or "header_sin_nombre").strip() for h in (df.row(6) if df.height > 6 else [])]
HeadersBackend(frame) ==
    LET fila6 == IF Len(frame) > 6 THEN frame[7] ELSE <<>>
    IN  [j \in 1..Len(fila6) |->
            IF fila6[j] = None \/ fila6[j] = <<>> THEN Strip(HeaderSinNombre)
            ELSE Strip(fila6[j])]

\* str(val or "")
StrOrEmpty(v) == IF v = None THEN <<>> ELSE v

\* reg: each key holds the value of the last column that carries it
Registro(row, headers) ==
    LET cols == {j \in 1..Len(row) : j - 1 < Len(headers)}
    IN  [k \in {headers[j] : j \in cols} |->
            StrOrEmpty(row[CHOOSE j \in cols :
                              /\ headers[j] = k
                              /\ \A i \in cols : headers[i] = k => i <= j])]

\* registros: one reg per row of df.slice(7)
Registros(frame) ==
    LET datos == Datos(frame)
    IN  [i \in 1..Len(datos) |-> Registro(datos[i], HeadersBackend(frame))]

\* out_json
OutJson(frame, regs) ==
    [id_formato   |-> IF Len(frame) > 0 THEN Str(frame[1][1])
                      ELSE <<"F", "o", "r", "m", "a", "t", "o", " ", "n", "o", " ",
                             "e", "n", "c", "o", "n", "t", "r", "a", "d", "o">>,
     Titulo       |-> IF Len(frame) > 2 THEN Strip(Str(frame[3][1])) ELSE <<>>,
     NombreCorto  |-> Strip(Str(NombreCorto(frame))),
     data         |-> regs]

(***************************************************************************)
(* convertir_excel_a_csv: the cells of the active worksheet as CSV fields. *)
(***************************************************************************)
\* "" for None, else str(c) with ',', '\n' and '\r' replaced by ' '
CeldaCsv(c) ==
    IF c = None THEN <<>>
    ELSE [i \in 1..Len(c) |-> IF c[i] \in {",", "\n", "\r"} THEN " " ELSE c[i]]

HojaCsv(hoja) == [i \in 1..Len(hoja) |-> [j \in 1..Len(hoja[i]) |-> CeldaCsv(hoja[i][j])]]

(***************************************************************************)
(* The uploads.  A file is its extension, whether its bytes can be read    *)
(* (a workbook openpyxl loads, a text utf-8 decodes) and its table: the    *)
(* fields of a CSV, the cell values of a workbook.                         *)
(***************************************************************************)
SeqsUpTo(S, n) == UNION {[1..k -> S] : k \in 0..n}

RowId == <<<<"F", "1">>, <<>>>>
RowMeta == <<<<"m">>, <<>>>>
RowTitle == <<<<"T">>, <<>>>>

Sheet(reglas, headers, datos) ==
    <<RowId, RowMeta, RowTitle, reglas, RowMeta, RowMeta, headers>> \o datos

InsertRow(sheet, p, row) ==
    IF p >= Len(sheet) THEN Append(sheet, row)
    ELSE SubSeq(sheet, 1, p) \o <<row>> \o SubSeq(sheet, p + 1, Len(sheet))

Csv(hoja) == [nombre_ok |-> TRUE, ext |-> "csv", legible |-> TRUE, hoja |-> hoja]

\* a workbook holds None where a CSV holds an empty field
Xlsx(hoja) ==
    [nombre_ok |-> TRUE, ext |-> "xlsx", legible |-> TRUE,
     hoja |-> [i \in 1..Len(hoja) |->
                 [j \in 1..Len(hoja[i]) |->
                     IF hoja[i][j] = <<>> THEN None ELSE hoja[i][j]]]]

\* sheets with a Number rule on column A and none on column B, and up to
\* MaxDataRows data rows: runs, gaps and groups for the consolidation
RowKinds == {<<<<"7">>, <<"b">>>>, <<<<>>, <<"b">>>>, <<<<"x">>, <<"b">>>>,
             <<<<"7">>, <<>>>>, <<<<"x">>, <<>>>>}

ConsolidationFiles ==
    {Csv(Sheet(<<<<"3">>, <<>>>>, <<<<"H">>, <<"G">>>>, datos)) :
        datos \in SeqsUpTo(RowKinds, MaxDataRows)}

\* sheets that vary the rule row, the header row, blank rows and the format
LayoutReglas == {<<<<"3">>, <<>>>>, <<<<"1", "2", ".", "0">>, <<"3">>>>,
                 <<<<"1", "2">>, <<"9", "9">>>>}
LayoutHeaders == {<<<<"H">>, <<"G">>>>, <<<<"H">>, <<"H">>>>, <<<<"H">>, <<>>>>,
                  <<<<"H">>, <<" ">>>>, <<<<" ", "H">>, <<"G">>>>}
LayoutRows == {<<<<"2", "0", "2", "3">>, <<"7">>>>, <<<<>>, <<"x">>>>,
               <<<<"-", "1", "2", "3">>, <<"0">>>>}
BlankRows == {<<<<>>, <<>>>>, <<<<" ">>, <<"n", "a", "n">>>>}
BlankAt == {0, 2, 4, 7, 8}

LayoutSheets ==
    LET base == {Sheet(r, h, d) : r \in LayoutReglas, h \in LayoutHeaders,
                                  d \in SeqsUpTo(LayoutRows, 2)}
    IN  base \cup {InsertRow(s, p, b) : s \in base, p \in BlankAt, b \in BlankRows}

LayoutFiles == {Csv(s) : s \in LayoutSheets} \cup {Xlsx(s) : s \in LayoutSheets}

\* sheets shorter than the fixed layout
ShortFiles ==
    {Csv(SubSeq(Sheet(<<<<"3">>, <<>>>>, <<<<"H">>, <<"G">>>>, <<>>), 1, n)) : n \in 0..7}

SheetOk == Sheet(<<<<"3">>, <<>>>>, <<<<"H">>, <<"G">>>>, <<<<<<"7">>, <<"b">>>>>>)
SheetBad == Sheet(<<<<"3">>, <<>>>>, <<<<"H">>, <<"G">>>>, <<<<<<"x">>, <<>>>>>>)

\* the uploads of the concurrent runs: a clean sheet, one with errors, a
\* workbook, a .xls (openpyxl loads none), bytes that do not decode, and a
\* request whose file has no name
SmallFiles ==
    {Csv(SheetOk), Csv(SheetBad), Xlsx(SheetOk),
     [Xlsx(SheetOk) EXCEPT !.ext = "xls"],
     [Csv(SheetOk) EXCEPT !.legible = FALSE],
     [Csv(SheetOk) EXCEPT !.nombre_ok = FALSE]}

Uploads ==
    [{1} -> ConsolidationFiles \cup LayoutFiles \cup ShortFiles]
        \cup [1..MaxTasks -> SmallFiles]

(***************************************************************************)
(* The registry, the folders and the runs.                                 *)
(***************************************************************************)
Ids == DOMAIN clients

ruta(t)      == <<"temp_uploads", t>>
temp_csv(t)  == <<"tmp", t>>
json_path(t) == <<"temp_downloads", t>>

Processing == [status |-> "processing"]

\* tasks.get(task_id, {'status': 'not_found'}), the body of /status/<task_id>
status(task_id) ==
    IF task_id \in DOMAIN tasks THEN tasks[task_id] ELSE [status |-> "not_found"]

Sin(f, paths) == [q \in (DOMAIN f) \ paths |-> f[q]]

SetTaskSolo(t, entry) == t :> entry
\* tasks[task_id] = entry
SetTask(t, entry) == (t :> entry) @@ tasks

IdleRun ==
    /\ clients = <<>> /\ tasks = <<>> /\ disk = <<>> /\ pc = <<>>
    /\ csv_path = <<>> /\ df = <<>> /\ errores_base = <<>>
    /\ lista_de_errores = <<>> /\ registros = <<>> /\ exc = <<>>

IdleAnio == valor = None /\ veredicto = [hecho |-> TRUE, errores |-> <<>>]

IdleCoord == llamada = [fila |-> 0, col |-> 0] /\ col = 0 /\ col_str = <<>> /\ coord = None

Init ==
    /\ clients \in Uploads
    /\ tasks = <<>>
    /\ disk = <<>>
    /\ pc = [t \in DOMAIN clients |-> "upload"]
    /\ csv_path = [t \in DOMAIN clients |-> None]
    /\ df = [t \in DOMAIN clients |-> <<>>]
    /\ errores_base = [t \in DOMAIN clients |-> <<>>]
    /\ lista_de_errores = [t \in DOMAIN clients |-> <<>>]
    /\ registros = [t \in DOMAIN clients |-> <<>>]
    /\ exc = [t \in DOMAIN clients |-> "ninguna"]
    /\ IdleAnio /\ IdleCoord

\* upload(): a request without a file name is answered 400
UploadRechazado(t) ==
    /\ pc[t] = "upload" /\ ~clients[t].nombre_ok
    /\ pc' = [pc EXCEPT ![t] = "400"]
    /\ UNCHANGED <<clients, tasks, disk, csv_path, df, errores_base,
                   lista_de_errores, registros, exc, anioVars, coordVars>>

\* upload(): the file is saved, the task registered, the thread started
Upload(t) ==
    /\ pc[t] = "upload" /\ clients[t].nombre_ok
    /\ disk' = (ruta(t) :> clients[t]) @@ disk
    /\ tasks' = SetTask(t, Processing)
    /\ pc' = [pc EXCEPT ![t] = "convertir"]
    /\ UNCHANGED <<clients, csv_path, df, errores_base, lista_de_errores,
                   registros, exc, anioVars, coordVars>>

\* csv_path = convertir_excel_a_csv(filepath) if ext in (".xlsx", ".xls") else filepath
Convertir(t) ==
    /\ pc[t] = "convertir"
    /\ IF disk[ruta(t)].ext \in {"xlsx", "xls"}
       THEN IF disk[ruta(t)].ext = "xlsx" /\ disk[ruta(t)].legible
            THEN /\ disk' = (temp_csv(t) :> Csv(HojaCsv(disk[ruta(t)].hoja))) @@ disk
                 /\ csv_path' = [csv_path EXCEPT ![t] = temp_csv(t)]
                 /\ pc' = [pc EXCEPT ![t] = "leer"]
                 /\ exc' = exc
            ELSE \* load_workbook raises after NamedTemporaryFile(delete=False)
                 /\ disk' = (temp_csv(t) :> Csv(<<>>)) @@ disk
                 /\ csv_path' = csv_path
                 /\ pc' = [pc EXCEPT ![t] = "except"]
                 /\ exc' = [exc EXCEPT ![t] = "load_workbook"]
       ELSE /\ csv_path' = [csv_path EXCEPT ![t] = ruta(t)]
            /\ pc' = [pc EXCEPT ![t] = "leer"]
            /\ UNCHANGED <<disk, exc>>
    /\ UNCHANGED <<clients, tasks, df, errores_base, lista_de_errores, registros,
                   anioVars, coordVars>>

\* the first line, pl.read_csv and the filter of the empty rows
Leer(t) ==
    /\ pc[t] = "leer"
    /\ LET f == disk[csv_path[t]]
       IN  IF ~f.legible \/ f.hoja = <<>>
           THEN /\ pc' = [pc EXCEPT ![t] = "except"]
                /\ exc' = [exc EXCEPT ![t] = "read_csv"]
                /\ df' = df
           ELSE /\ df' = [df EXCEPT ![t] = FiltrarVacias(read_csv(f.hoja))]
                /\ pc' = [pc EXCEPT ![t] = "validar"]
                /\ exc' = exc
    /\ UNCHANGED <<clients, tasks, disk, csv_path, errores_base, lista_de_errores,
                   registros, anioVars, coordVars>>

\* "Validación base"
Validar(t) ==
    /\ pc[t] = "validar"
    /\ lista_de_errores' = [lista_de_errores EXCEPT ![t] = ValidacionBase(df[t])]
    /\ errores_base' = [errores_base EXCEPT ![t] = ValidacionBase(df[t])]
    /\ pc' = [pc EXCEPT ![t] = "agrupar"]
    /\ UNCHANGED <<clients, tasks, disk, csv_path, df, registros, exc,
                   anioVars, coordVars>>

\* "Agrupar errores contiguos"
Consolidar(t) ==
    /\ pc[t] = "agrupar"
    /\ lista_de_errores' = [lista_de_errores EXCEPT ![t] = Agrupar(@)]
    /\ pc' = [pc EXCEPT ![t] = "resultado"]
    /\ UNCHANGED <<clients, tasks, disk, csv_path, df, errores_base, registros, exc,
                   anioVars, coordVars>>

\* "Si hay errores -> solo devolver errores"
ReportarErrores(t) ==
    /\ pc[t] = "resultado" /\ lista_de_errores[t] # <<>>
    /\ tasks' = SetTask(t, [status |-> "complete",
                            result |-> [status |-> "error",
                                        errors |-> lista_de_errores[t],
                                        nombre_corto |-> Str(NombreCorto(df[t]))]])
    /\ pc' = [pc EXCEPT ![t] = "finally"]
    /\ UNCHANGED <<clients, disk, csv_path, df, errores_base, lista_de_errores,
                   registros, exc, anioVars, coordVars>>

\* "Si NO hay errores -> construir JSON": registros
Extraer(t) ==
    /\ pc[t] = "resultado" /\ lista_de_errores[t] = <<>>
    /\ registros' = [registros EXCEPT ![t] = Registros(df[t])]
    /\ pc' = [pc EXCEPT ![t] = "escribir"]
    /\ UNCHANGED <<clients, tasks, disk, csv_path, df, errores_base,
                   lista_de_errores, exc, anioVars, coordVars>>

\* with open(json_path, "w") as f: json.dump(out_json, f): the write ends, or
\* open raises, or the write raises with the file already created
EscribirJson(t) ==
    /\ pc[t] = "escribir"
    /\ \/ /\ disk' = (json_path(t) :> [json |-> OutJson(df[t], registros[t]),
                                       completo |-> TRUE]) @@ disk
          /\ pc' = [pc EXCEPT ![t] = "publicar"]
          /\ exc' = exc
       \/ /\ disk' = disk
          /\ pc' = [pc EXCEPT ![t] = "except"]
          /\ exc' = [exc EXCEPT ![t] = "open"]
       \/ /\ disk' = (json_path(t) :> [json |-> OutJson(df[t], registros[t]),
                                       completo |-> FALSE]) @@ disk
          /\ pc' = [pc EXCEPT ![t] = "except"]
          /\ exc' = [exc EXCEPT ![t] = "json.dump"]
    /\ UNCHANGED <<clients, tasks, csv_path, df, errores_base, lista_de_errores,
                   registros, anioVars, coordVars>>

\* the success entry, with the name of the file to download
Publicar(t) ==
    /\ pc[t] = "publicar"
    /\ tasks' = SetTask(t, [status |-> "complete",
                            result |-> [status |-> "success",
                                        download_file |-> json_path(t),
                                        nombre_corto |-> Str(NombreCorto(df[t]))]])
    /\ pc' = [pc EXCEPT ![t] = "finally"]
    /\ UNCHANGED <<clients, disk, csv_path, df, errores_base, lista_de_errores,
                   registros, exc, anioVars, coordVars>>

\* except Exception as e: tasks[task_id] = {'status': 'failed', 'error': str(e)}
Except(t) ==
    /\ pc[t] = "except"
    /\ tasks' = SetTask(t, [status |-> "failed", error |-> exc[t]])
    /\ pc' = [pc EXCEPT ![t] = "finally"]
    /\ UNCHANGED <<clients, disk, csv_path, df, errores_base, lista_de_errores,
                   registros, exc, anioVars, coordVars>>

\* finally: the upload is removed, and csv_path when it names another file
Finally(t) ==
    /\ pc[t] = "finally"
    /\ disk' = Sin(disk, {ruta(t)} \cup
                         (IF csv_path[t] # None /\ csv_path[t] # ruta(t)
                          THEN {csv_path[t]} ELSE {}))
    /\ pc' = [pc EXCEPT ![t] = "fin"]
    /\ UNCHANGED <<clients, tasks, csv_path, df, errores_base, lista_de_errores,
                   registros, exc, anioVars, coordVars>>

Next ==
    \/ \E t \in Ids : UploadRechazado(t)
    \/ \E t \in Ids : Upload(t)
    \/ \E t \in Ids : Convertir(t)
    \/ \E t \in Ids : Leer(t)
    \/ \E t \in Ids : Validar(t)
    \/ \E t \in Ids : Consolidar(t)
    \/ \E t \in Ids : ReportarErrores(t)
    \/ \E t \in Ids : Extraer(t)
    \/ \E t \in Ids : EscribirJson(t)
    \/ \E t \in Ids : Publicar(t)
    \/ \E t \in Ids : Except(t)
    \/ \E t \in Ids : Finally(t)

Spec == Init /\ [][Next]_vars

(***************************************************************************)
(* The Year rule applied to one cell of a column headed 'H'.               *)
(***************************************************************************)
AnioChars == {"2", "-", ".", "e", " ", "x"}

InitAnio ==
    /\ valor \in {IF s \in NullValues THEN None ELSE s :
                     s \in SeqsUpTo(AnioChars, MaxValLen)}
    /\ veredicto = [hecho |-> FALSE, errores |-> <<>>]
    /\ IdleRun /\ IdleCoord

\* the inner loop's body on a cell of column A, rule row ('12',), row 8
ValidarAnio ==
    /\ ~veredicto.hecho
    /\ veredicto' = [hecho |-> TRUE,
                     errores |-> ValidarCelda(<<<<"1", "2">>>>, <<<<"H">>>>, 7, 0, valor)]
    /\ UNCHANGED <<valor, coordVars, runVars>>

NextAnio == ValidarAnio

SpecAnio == InitAnio /\ [][NextAnio]_vars

(***************************************************************************)
(* obtener_coordenada_excel, one iteration of its loop at a time.          *)
(***************************************************************************)
InitCoord ==
    /\ llamada \in [fila : 0..MaxFilaIdx, col : 0..MaxColIdx]
    /\ col = llamada.col
    /\ col_str = <<>>
    /\ coord = None
    /\ IdleRun /\ IdleAnio

\* while col >= 0: one iteration
CoordIter ==
    /\ coord = None /\ col >= 0
    /\ col_str' = <<ColLetter(col)>> \o col_str
    /\ col' = ColNext(col)
    /\ UNCHANGED <<llamada, coord, anioVars, runVars>>

\* return f"{col_str}{fila + 1}"
CoordReturn ==
    /\ coord = None /\ col < 0
    /\ coord' = col_str \o DecStr(llamada.fila + 1)
    /\ UNCHANGED <<llamada, col, col_str, anioVars, runVars>>

NextCoord == CoordIter \/ CoordReturn

\* the call runs on one thread, which keeps taking steps until it returns
SpecCoord == InitCoord /\ [][NextCoord]_vars /\ WF_vars(NextCoord)

(***************************************************************************)
(* The properties.                                                         *)
(***************************************************************************)
\* how far a run has come
Cargado(t)     == pc[t] \notin {"upload", "400", "convertir", "leer"}
                  /\ exc[t] \notin {"load_workbook", "read_csv"}
Validado(t)    == Cargado(t) /\ pc[t] # "validar"
Consolidado(t) == Validado(t) /\ pc[t] # "agrupar"
Extraido(t)    == Consolidado(t) /\ pc[t] # "resultado" /\ lista_de_errores[t] = <<>>

\* the table polars reads for an upload
TablaDe(f) == IF f.ext = "csv" THEN f.hoja ELSE HojaCsv(f.hoja)

\* the column name of index c in bijective base 26, by its length
StdColName(c) ==
    IF c < 26 THEN <<Upper[c + 1]>>
    ELSE IF c < 702
         THEN <<Upper[((c - 26) \div 26) + 1], Upper[((c - 26) % 26) + 1]>>
         ELSE <<Upper[((c - 702) \div 676) + 1],
                Upper[(((c - 702) \div 26) % 26) + 1],
                Upper[((c - 702) % 26) + 1]>>

LetterVal(ch) == CHOOSE i \in 1..26 : Upper[i] = ch

RECURSIVE ColIndexPlus1(_)
\* the value of a bijective base-26 numeral (A = 1, ..., Z = 26)
ColIndexPlus1(name) ==
    IF name = <<>> THEN 0
    ELSE 26 * ColIndexPlus1(SubSeq(name, 1, Len(name) - 1)) + LetterVal(name[Len(name)])

\* a label split into its letters and its digits
LetrasDe(label) == SubSeq(label, 1, SpanEnd(label, 1, UpperSet) - 1)
DigitosDe(label) == SubSeq(label, SpanEnd(label, 1, UpperSet), Len(label))

\* the error records of a list, as (column, row, message)
Registrado(err) ==
    LET m == PatronSearch(err)
    IN  [col |-> m.col, fila |-> ParseInt(m.fila), msg |-> Strip(m.msg)]

\* a list of error records, each as (column, row, message)
RegistrosDe(errs) == [i \in 1..Len(errs) |-> Registrado(errs[i])]

\* the (column, message) groups of parsed records, and the rows of a group
GruposDe(recs) == {<<recs[i].col, recs[i].msg>> : i \in 1..Len(recs)}

FilasDe(recs, g) ==
    {recs[i].fila : i \in {j \in 1..Len(recs) : recs[j].col = g[1] /\ recs[j].msg = g[2]}}

\* the maximal runs of consecutive integers of a set of rows
MaxRuns(R) ==
    {r \in R \X R : /\ r[1] <= r[2]
                    /\ \A x \in r[1]..r[2] : x \in R
                    /\ (r[1] - 1) \notin R /\ (r[2] + 1) \notin R}

\* the text of the block of a run
BlockText(g, r) ==
    Celda \o <<" ">> \o g[1] \o DecStr(r[1])
          \o (IF r[1] = r[2] THEN <<>>
              ELSE <<" ", "h", "a", "s", "t", "a", " ">> \o g[1] \o DecStr(r[2]))
          \o <<" ">> \o g[2]

\* the (group, run) pairs of a list
RunsDe(recs) == UNION {{<<g, r>> : r \in MaxRuns(FilasDe(recs, g))} : g \in GruposDe(recs)}

\* C1: for every (column, message) group of the error list the consolidator
\* emits exactly one block per maximal run of consecutive rows of the group:
\* 'Celda {col}{first}' for a run of one row, 'Celda {col}{first} hasta
\* {col}{last}' otherwise, followed by the message; nothing else is emitted.
C1_OneBlockPerMaximalRun ==
    \A t \in Ids : (Consolidado(t) /\ errores_base[t] # <<>>) =>
        \A runs \in {RunsDe(RegistrosDe(errores_base[t]))} :
        LET out  == lista_de_errores[t]
        IN  /\ {out[i] : i \in 1..Len(out)} = {BlockText(x[1], x[2]) : x \in runs}
            /\ Len(out) = Cardinality(runs)

\* a group with a run of two rows, a gap and a run of one row
C1_Witness ==
    \E t \in Ids : /\ Consolidado(t)
                   /\ \E g \in GruposDe(RegistrosDe(errores_base[t])) :
                        LET runs == MaxRuns(FilasDe(RegistrosDe(errores_base[t]), g))
                        IN  /\ Cardinality(runs) >= 2
                            /\ \E r \in runs : r[1] < r[2]
                            /\ \E r \in runs : r[1] = r[2]

\* the errors of the base list at data cell (k, c) of a frame
ErroresEn(recs, k, c) ==
    {i \in 1..Len(recs) : recs[i].col = StdColName(c) /\ recs[i].fila = k + 8}

\* C2: every data cell contributes at most one error record: an empty cell
\* only the emptiness record (the type check does not run for it), a cell
\* that is not empty at most one type-mismatch record; no coordinate appears
\* in two records of the list before consolidation.
C2_OneErrorPerCell ==
    \A t \in Ids : Validado(t) =>
        \A recs \in {RegistrosDe(errores_base[t])} :
        LET errs  == errores_base[t]
            datos == Datos(df[t])
            heads == HeadersVisibles(df[t])
        IN  /\ \A i, j \in 1..Len(errs) :
                  (recs[i].col = recs[j].col /\ recs[i].fila = recs[j].fila) => i = j
            /\ \A k \in 0..(Len(datos) - 1) : \A c \in 0..(Len(datos[k + 1]) - 1) :
                  LET at == ErroresEn(recs, k, c)
                      co == StdColName(c) \o DecStr(k + 8)
                  IN  /\ Cardinality(at) <= 1
                      /\ \A i \in at :
                           IF esta_vacio(datos[k + 1][c + 1])
                           THEN errs[i] = ErrorVacia(co, heads[c + 1])
                           ELSE \E r \in Reglas :
                                   errs[i] = ErrorInvalida(co, datos[k + 1][c + 1],
                                                           NombreRegla(r))

\* an empty cell under a column that carries a rule has its emptiness record
C2_Witness ==
    \E t \in Ids : /\ Validado(t)
                   /\ \E k \in 0..(Len(Datos(df[t])) - 1) :
                        /\ ReglaDe(FilaReglas(df[t]), 0) \in Reglas
                        /\ esta_vacio(Datos(df[t])[k + 1][1])
                        /\ Cardinality(ErroresEn(RegistrosDe(errores_base[t]), k, 0)) = 1

\* a row is fully empty when every cell is null or blank
FullyEmpty(row) == \A j \in 1..Len(row) : row[j] = None \/ Strip(row[j]) = <<>>

NotFullyEmpty(row) == ~FullyEmpty(row)

\* C3: the fully-empty rows are removed from the whole sheet before the rule
\* row, the header row and the data region are located, and the data row at
\* position k of the filtered data region is reported with row number k + 8.
C3_FilterBeforeOffsets ==
    \A t \in Ids : Cargado(t) =>
        \A filtrada \in {SelectSeq(read_csv(TablaDe(clients[t])), NotFullyEmpty)} :
        \A recs \in {RegistrosDe(errores_base[t])} :
        LET reglas   == IF Len(filtrada) > 3 THEN filtrada[4] ELSE <<>>
            heads    == IF Len(filtrada) > 6
                        THEN [j \in 1..Len(filtrada[7]) |-> Strip(StrOrEmpty(filtrada[7][j]))]
                        ELSE <<>>
            datos    == SubSeq(filtrada, 8, Len(filtrada))
        IN  /\ df[t] = filtrada
            /\ Validado(t) =>
                 {<<recs[i].col, recs[i].fila>> : i \in 1..Len(recs)}
                   = {<<StdColName(x[2]), x[1] + 8>> :
                        x \in {y \in (0..(Len(datos) - 1)) \X (0..(Len(heads) - 1)) :
                                 ValidarCelda(reglas, heads, y[1] + 7, y[2],
                                              datos[y[1] + 1][y[2] + 1]) # <<>>}}

\* a blank row stood above the data region, and an error was reported
C3_Witness ==
    \E t \in Ids : /\ Validado(t)
                   /\ errores_base[t] # <<>>
                   /\ \E i \in 1..7 : FullyEmpty(read_csv(TablaDe(clients[t]))[i])

\* the Year rule as stated: a number whose integer part is four digits
FourDigitYear(v) ==
    /\ es_numero(v)
    /\ Len(BeforeDot(v)) = 4
    /\ \A i \in 1..Len(BeforeDot(v)) : BeforeDot(v)[i] \in Digits

\* C4: for every non-empty cell value the Year rule (code '12') accepts it
\* if and only if it passes the Number check and its integer part is exactly
\* four digits; a rejected value gets the message naming 'Año (4 dígitos)'.
C4_YearIsFourDigits ==
    (veredicto.hecho /\ valor # None /\ ~esta_vacio(valor)) =>
        /\ (veredicto.errores = <<>>) <=> FourDigitYear(valor)
        /\ veredicto.errores # <<>> =>
              veredicto.errores = <<ErrorInvalida(<<"A", "8">>, valor, Anio)>>

\* C5: the coordinate mapper returns the standard column name of c in
\* bijective base 26 followed by r + 1; the label determines (r, c), so two
\* different pairs never share a label; and the loop ends for every c.
C5_CoordinateLabel ==
    /\ [](coord # None =>
            /\ LetrasDe(coord) = StdColName(llamada.col)
            /\ DigitosDe(coord) # <<>>
            /\ \A i \in 1..Len(DigitosDe(coord)) : DigitosDe(coord)[i] \in Digits
            /\ DigitosDe(coord)[1] # "0"
            /\ ParseInt(DigitosDe(coord)) = llamada.fila + 1
            /\ ColIndexPlus1(LetrasDe(coord)) - 1 = llamada.col
            /\ (llamada.col = 0 => LetrasDe(coord) = <<"A">>)
            /\ (llamada.col = 25 => LetrasDe(coord) = <<"Z">>)
            /\ (llamada.col = 26 => LetrasDe(coord) = <<"A", "A">>)
            /\ (llamada.col = 51 => LetrasDe(coord) = <<"A", "Z">>)
            /\ (llamada.col = 52 => LetrasDe(coord) = <<"B", "A">>)
            /\ (llamada.col = 701 => LetrasDe(coord) = <<"Z", "Z">>)
            /\ (llamada.col = 702 => LetrasDe(coord) = <<"A", "A", "A">>))
    /\ <>(coord # None)

\* the label of column 702 on a row with two digits
C5_Witness == coord = <<"A", "A", "A", "1", "0">>

\* the key of column j of a header row: its trimmed label, or the
\* placeholder when the label is empty
ClaveDe(h) == IF h = None THEN HeaderSinNombre ELSE Strip(h)

ErroresExpuestos(t) ==
    t \in DOMAIN tasks /\ "result" \in DOMAIN tasks[t] /\ "errors" \in DOMAIN tasks[t].result
ArchivoExpuesto(t) == json_path(t) \in DOMAIN disk
Fallida(t)   == tasks[t].status = "failed"
ConErrores(t) ==
    /\ tasks[t].status = "complete" /\ tasks[t].result.status = "error"
    /\ tasks[t].result.errors # <<>>
Exitosa(t)   ==
    /\ tasks[t].status = "complete" /\ tasks[t].result.status = "success"
    /\ ArchivoExpuesto(t) /\ disk[json_path(t)].completo

\* C7: a run ends failed, or completed with a non-empty error list, or
\* completed with its records, and never two of them; a failed run leaves no
\* error list and no records exposed, neither in the task's result nor as a
\* file to download.
C7_AllOrNothing ==
    \A t \in Ids : pc[t] = "fin" =>
        /\ Fallida(t) \/ ConErrores(t) \/ Exitosa(t)
        /\ ~(Fallida(t) /\ ConErrores(t)) /\ ~(Fallida(t) /\ Exitosa(t))
        /\ ~(ConErrores(t) /\ Exitosa(t))
        /\ Fallida(t) => (~ErroresExpuestos(t) /\ ~ArchivoExpuesto(t)
                          /\ "result" \notin DOMAIN tasks[t])

\* the entries a run of file f can end with when it runs alone
RunAlone(f, t) ==
    IF f.ext \in {"xlsx", "xls"} /\ ~(f.ext = "xlsx" /\ f.legible)
    THEN {[status |-> "failed", error |-> "load_workbook"]}
    ELSE IF ~f.legible \/ TablaDe(f) = <<>>
    THEN {[status |-> "failed", error |-> "read_csv"]}
    ELSE LET frame == FiltrarVacias(read_csv(TablaDe(f)))
             errs  == Agrupar(ValidacionBase(frame))
         IN  IF errs # <<>>
             THEN {[status |-> "complete",
                    result |-> [status |-> "error", errors |-> errs,
                                nombre_corto |-> Str(NombreCorto(frame))]]}
             ELSE {[status |-> "complete",
                    result |-> [status |-> "success", download_file |-> json_path(t),
                                nombre_corto |-> Str(NombreCorto(frame))]],
                   [status |-> "failed", error |-> "open"],
                   [status |-> "failed", error |-> "json.dump"]}

JsonAlone(f) ==
    LET frame == FiltrarVacias(read_csv(TablaDe(f)))
    IN  OutJson(frame, Registros(frame))

\* C8: runs of different uploads do not interfere: under every interleaving
\* each run writes only its own task entry and its own output file, and the
\* entry recorded for a task is the one its run produces when run alone.
C8_RunsDoNotInterfere ==
    \A t \in Ids :
        /\ pc[t] \in {"upload", "400"} =>
              /\ t \notin DOMAIN tasks
              /\ {ruta(t), temp_csv(t), json_path(t)} \cap DOMAIN disk = {}
        /\ pc[t] \notin {"upload", "400"} => t \in DOMAIN tasks
        /\ pc[t] \in {"convertir", "leer", "validar", "agrupar", "resultado",
                      "escribir", "publicar", "except"} =>
              /\ t \in DOMAIN tasks /\ tasks[t] = Processing
              /\ ruta(t) \in DOMAIN disk /\ disk[ruta(t)] = clients[t]
        /\ pc[t] \in {"finally", "fin"} =>
              t \in DOMAIN tasks /\ tasks[t] \in RunAlone(clients[t], t)
        /\ json_path(t) \in DOMAIN disk =>
              /\ pc[t] \in {"publicar", "except", "finally", "fin"}
              /\ disk[json_path(t)].json = JsonAlone(clients[t])

\* two runs have ended, one with the entry of a success and one failed
C8_Witness ==
    /\ Cardinality(Ids) >= 2
    /\ \A t \in Ids : pc[t] = "fin"
    /\ \E t, u \in Ids : /\ t # u /\ Exitosa(t) /\ Fallida(u)

\* the first record of a group in the base list
PrimerIndice(recs, g) ==
    CHOOSE i \in 1..Len(recs) :
        /\ <<recs[i].col, recs[i].msg>> = g
        /\ \A j \in 1..(i - 1) : <<recs[j].col, recs[j].msg>> # g

\* C9: the blocks are emitted in group-encounter order: every block of the
\* group whose first record the scan met first precedes every block of a
\* group met later, and the blocks of one group ascend by their first row.
C9_GroupEncounterOrder ==
    \A t \in Ids : (Consolidado(t) /\ errores_base[t] # <<>>) =>
        \A recs \in {RegistrosDe(errores_base[t])} : \A runs \in {RunsDe(recs)} :
        LET out  == lista_de_errores[t]
            runOf == [p \in 1..Len(out) |->
                        IF \E x \in runs : BlockText(x[1], x[2]) = out[p]
                        THEN CHOOSE x \in runs : BlockText(x[1], x[2]) = out[p]
                        ELSE <<<<>>, <<0, 0>>>>]
            primero == [p \in 1..Len(out) |->
                          IF runOf[p][1] = <<>> THEN 0 ELSE PrimerIndice(recs, runOf[p][1])]
        IN  \A ro \in {runOf} : \A pr \in {primero} :
            /\ \A p \in 1..Len(out) : ro[p][1] # <<>>
            /\ \A p, q \in 1..Len(out) : p < q =>
                  \/ pr[p] < pr[q]
                  \/ ro[p][1] = ro[q][1] /\ ro[p][2][1] < ro[q][2][1]

\* a block of column B precedes one of column A, and a block of row 11
\* precedes one of row 10: the output is sorted neither by column nor by row
C9_Witness ==
    \E t \in Ids :
        /\ Consolidado(t)
        /\ LET out == RegistrosDe(lista_de_errores[t])
           IN  /\ \E p, q \in 1..Len(out) :
                     p < q /\ out[p].col = <<"B">> /\ out[q].col = <<"A">>
               /\ \E p, q \in 1..Len(out) : p < q /\ out[p].fila > out[q].fila

\* C10: upload registers the task as 'processing' before its run starts; an
\* id never registered reads 'not_found'; a registered task stays
\* 'processing' until its run writes 'complete' or 'failed', once, on every
\* path; and when the run has ended the
\* uploaded file and any temporary converted file are deleted.
C10_TaskLifecycle ==
    \A t \in Ids :
        /\ pc[t] \in {"upload", "400"} => status(t).status = "not_found"
        /\ pc[t] \in {"convertir", "leer", "validar", "agrupar", "resultado",
                      "escribir", "publicar", "except"} =>
              status(t).status = "processing"
        /\ pc[t] \in {"finally", "fin"} => status(t).status \in {"complete", "failed"}
        /\ pc[t] = "fin" => /\ ruta(t) \notin DOMAIN disk
                            /\ temp_csv(t) \notin DOMAIN disk
====
